---- MODULE Spec2Model ----
(***************************************************************************)
(* Model of NgxDataToCsvService (ngx-data-to-csv.service.ts).  The source   *)
(* file holds two revisions of the class: the first (lines 26-151) builds   *)
(* the document from a local array joined by END_OF_LINE, the second        *)
(* (lines 201-446) appends line by line and throws on bad input.  Both are  *)
(* modelled; the variable impl says which class the service instance is.    *)
(*                                                                         *)
(* A JavaScript string is a sequence of one-character strings.  A           *)
(* JavaScript value is a record [t, s, kids]: t is its type tag, s its      *)
(* String() form for primitives, kids its own enumerable properties in      *)
(* for-in order as [k, v] pairs (array elements have k = the index).        *)
(***************************************************************************)
EXTENDS Integers, Sequences, FiniteSets, TLC

VARIABLES
  impl,       \* which of the two classes the instance is: "v1" or "v2"
  data,       \* this.data
  options,    \* this.options
  csv,        \* this.csv
  args,       \* the arguments of the last toCsv call
  outcome,    \* how it ended: "none" before any call, "return" or "throw"
  returned,   \* the value it returned
  thrown,     \* the error it threw, "" if none
  downloads,  \* the downloads it started: blob text and link.download
  log,        \* its console.log lines
  keys,       \* its const keys, once computed
  rows,       \* the rows it formatted
  earlier,    \* what the call before it threw: "none" if there was no call
  fnArr,      \* the argument of the helper methods called directly
  fnKeys,     \* the result of extractUniqueKeys(fnArr)
  fnValues,   \* per key of fnKeys, the result of getNestedValues(fnArr, key)
  fnCells,    \* per record and key of fnKeys, the result of formatCellValue
  configDefaults  \* the exported ConfigDefaults object of model.ts

vars == <<impl, data, options, csv, args, outcome, returned, thrown,
          downloads, log, keys, rows, earlier,
          fnArr, fnKeys, fnValues, fnCells, configDefaults>>

\* ------------------------------------------------------------ bounds
\* records per collection handed to toCsv
MaxRecords == 2
\* records per collection handed to the helper methods
MaxFnRecords == 2
\* elements per generated array field
MaxArr == 2

\* ------------------------------------------------------------ characters
Digits == <<"0", "1", "2", "3", "4", "5", "6", "7", "8", "9">>

DigitChars == {Digits[i] : i \in 1..Len(Digits)}

\* \w of the regular expression: [A-Za-z0-9_]
WordChars ==
  DigitChars \cup {"_"} \cup
  {"a","b","c","d","e","f","g","h","i","j","k","l","m",
   "n","o","p","q","r","s","t","u","v","w","x","y","z"} \cup
  {"A","B","C","D","E","F","G","H","I","J","K","L","M",
   "N","O","P","Q","R","S","T","U","V","W","X","Y","Z"}

QUOTE == "\""

RECURSIVE ToStr(_)
\* String(n) of a non-negative integer
ToStr(n) ==
  IF n < 10 THEN <<Digits[n + 1]>>
  ELSE ToStr(n \div 10) \o <<Digits[(n % 10) + 1]>>

RECURSIVE Join(_, _)
\* Array.prototype.join of strings
Join(parts, sep) ==
  IF Len(parts) = 0 THEN <<>>
  ELSE IF Len(parts) = 1 THEN parts[1]
  ELSE parts[1] \o sep \o Join(Tail(parts), sep)

RECURSIVE Split(_, _)
\* String.prototype.split on a one-character separator: always at least
\* one segment, empty segments kept
Split(str, ch) ==
  IF \A i \in 1..Len(str) : str[i] # ch THEN <<str>>
  ELSE LET p == CHOOSE i \in 1..Len(str) :
                  str[i] = ch /\ \A j \in 1..(i - 1) : str[j] # ch
       IN <<SubSeq(str, 1, p - 1)>> \o Split(SubSeq(str, p + 1, Len(str)), ch)

RECURSIVE ReplaceAll(_, _, _)
\* String.prototype.replace with a global one-character pattern
ReplaceAll(str, ch, by) ==
  IF str = <<>> THEN <<>>
  ELSE (IF Head(str) = ch THEN by ELSE <<Head(str)>>)
       \o ReplaceAll(Tail(str), ch, by)

\* String.prototype.includes for a one-character needle
Includes(str, ch) == \E i \in 1..Len(str) : str[i] = ch

\* ------------------------------------------------------------ values
Prim(t, s) == [t |-> t, s |-> s, kids |-> <<>>]
Num(s) == Prim("number", s)
Str(s) == Prim("string", s)
Bool(b) == Prim("boolean", IF b THEN <<"t","r","u","e">> ELSE <<"f","a","l","s","e">>)
Null == Prim("null", <<"n","u","l","l">>)
Undefined == Prim("undefined", <<"u","n","d","e","f","i","n","e","d">>)
\* a thrown TypeError, carried in place of the value
TypeError == Prim("TypeError", <<>>)

F(k, v) == [k |-> k, v |-> v]
Obj(fields) == [t |-> "object", s |-> <<>>, kids |-> fields]
Arr(elems) ==
  [t |-> "array", s |-> <<>>,
   kids |-> [i \in 1..Len(elems) |-> F(ToStr(i - 1), elems[i])]]

\* typeof v === 'object'
TypeofObject(v) == v.t \in {"object", "array", "null"}

\* the properties a for-in loop over v visits, in order (a string's are its
\* indices; numbers, booleans, null and undefined have none)
ForIn(v) ==
  IF v.t \in {"object", "array"} THEN v.kids
  ELSE IF v.t = "string"
       THEN [i \in 1..Len(v.s) |-> F(ToStr(i - 1), Str(<<v.s[i]>>))]
       ELSE <<>>

\* the own property key of v among own, else length, else undefined
Lookup(v, key, own) ==
  IF \E i \in 1..Len(own) : own[i].k = key
  THEN own[CHOOSE i \in 1..Len(own) : own[i].k = key].v
  ELSE IF key = <<"l","e","n","g","t","h">> /\ v.t = "array"
       THEN Num(ToStr(Len(v.kids)))
  ELSE IF key = <<"l","e","n","g","t","h">> /\ v.t = "string"
       THEN Num(ToStr(Len(v.s)))
  ELSE Undefined

\* v[key]: property read (own property names are unique); reading a
\* property of null or undefined throws
Get(v, key) ==
  IF v.t \in {"null", "undefined", "TypeError"} THEN TypeError
  ELSE Lookup(v, key, ForIn(v))

RECURSIVE JSONStringify(_)
RECURSIVE StringifyMembers(_, _)
\* JSON.stringify of a string: quoted, with " and \ escaped
Quote(str) ==
  <<QUOTE>>
  \o ReplaceAll(ReplaceAll(str, "\\", <<"\\", "\\">>), QUOTE, <<"\\", QUOTE>>)
  \o <<QUOTE>>

StringifyMembers(kids, isArray) ==
  IF kids = <<>> THEN <<>>
  ELSE LET e == Head(kids)
           one == IF isArray THEN <<JSONStringify(e.v)>>
                  ELSE IF e.v.t = "undefined" THEN <<>>
                  ELSE <<Quote(e.k) \o <<":">> \o JSONStringify(e.v)>>
       IN one \o StringifyMembers(Tail(kids), isArray)

JSONStringify(v) ==
  IF v.t = "object"
  THEN <<"{">> \o Join(StringifyMembers(v.kids, FALSE), <<",">>) \o <<"}">>
  ELSE IF v.t = "array"
  THEN <<"[">> \o Join(StringifyMembers(v.kids, TRUE), <<",">>) \o <<"]">>
  ELSE IF v.t = "string" THEN Quote(v.s)
  ELSE IF v.t = "undefined" THEN Null.s
  ELSE v.s

\* ------------------------------------------------------------ JSON.parse
ParseFail == [ok |-> FALSE, v |-> Undefined, next |-> 0]
ParseOk(v, next) == [ok |-> TRUE, v |-> v, next |-> next]

RECURSIVE SkipWs(_, _)
SkipWs(str, i) ==
  IF i <= Len(str) /\ str[i] = " " THEN SkipWs(str, i + 1) ELSE i

\* str[i..] starts with lit
StartsWith(str, i, lit) ==
  /\ i + Len(lit) - 1 <= Len(str)
  /\ \A j \in 1..Len(lit) : str[i + j - 1] = lit[j]

RECURSIVE DigitRunEnd(_, _)
\* the first position at or after i that holds no digit
DigitRunEnd(str, i) ==
  IF i <= Len(str) /\ str[i] \in DigitChars THEN DigitRunEnd(str, i + 1) ELSE i

RECURSIVE ParseString(_, _, _)
\* the characters of a JSON string whose opening quote is before i
ParseString(str, i, acc) ==
  IF i > Len(str) THEN ParseFail
  ELSE IF str[i] = QUOTE THEN ParseOk(Str(acc), i + 1)
  ELSE IF str[i] = "\\"
       THEN IF i + 1 <= Len(str) /\ str[i + 1] \in {QUOTE, "\\"}
            THEN ParseString(str, i + 2, Append(acc, str[i + 1]))
            ELSE ParseFail
  ELSE ParseString(str, i + 1, Append(acc, str[i]))

\* obj[k] = v on an object under construction: a repeated key keeps its
\* place and takes the new value
SetField(fields, k, v) ==
  IF \E i \in 1..Len(fields) : fields[i].k = k
  THEN [i \in 1..Len(fields) |-> IF fields[i].k = k THEN F(k, v) ELSE fields[i]]
  ELSE Append(fields, F(k, v))

RECURSIVE ParseValue(_, _)
RECURSIVE ParseElements(_, _, _)
RECURSIVE ParseMembers(_, _, _)

\* after "[" or ",": elements up to the closing bracket
ParseElements(str, i, acc) ==
  LET r == ParseValue(str, SkipWs(str, i))
      j == SkipWs(str, r.next)
  IN IF ~r.ok \/ j > Len(str) THEN ParseFail
     ELSE IF str[j] = "," THEN ParseElements(str, j + 1, Append(acc, r.v))
     ELSE IF str[j] = "]" THEN ParseOk(Arr(Append(acc, r.v)), j + 1)
     ELSE ParseFail

\* after "{" or ",": members up to the closing brace
ParseMembers(str, i, acc) ==
  LET ks == SkipWs(str, i)
      k == IF ks <= Len(str) /\ str[ks] = QUOTE
           THEN ParseString(str, ks + 1, <<>>) ELSE ParseFail
      c == SkipWs(str, k.next)
      r == IF k.ok /\ c <= Len(str) /\ str[c] = ":"
           THEN ParseValue(str, SkipWs(str, c + 1)) ELSE ParseFail
      j == SkipWs(str, r.next)
  IN IF ~r.ok \/ j > Len(str) THEN ParseFail
     ELSE IF str[j] = ","
          THEN ParseMembers(str, j + 1, SetField(acc, k.v.s, r.v))
     ELSE IF str[j] = "}"
          THEN ParseOk(Obj(SetField(acc, k.v.s, r.v)), j + 1)
     ELSE ParseFail

ParseValue(str, i) ==
  IF i > Len(str) THEN ParseFail
  ELSE IF StartsWith(str, i, Null.s) THEN ParseOk(Null, i + 4)
  ELSE IF StartsWith(str, i, Bool(TRUE).s) THEN ParseOk(Bool(TRUE), i + 4)
  ELSE IF StartsWith(str, i, Bool(FALSE).s) THEN ParseOk(Bool(FALSE), i + 5)
  ELSE IF str[i] = "0" THEN ParseOk(Num(<<"0">>), i + 1)
  ELSE IF str[i] \in DigitChars
       THEN ParseOk(Num(SubSeq(str, i, DigitRunEnd(str, i) - 1)), DigitRunEnd(str, i))
  ELSE IF str[i] = QUOTE THEN ParseString(str, i + 1, <<>>)
  ELSE IF str[i] = "["
       THEN IF SkipWs(str, i + 1) <= Len(str) /\ str[SkipWs(str, i + 1)] = "]"
            THEN ParseOk(Arr(<<>>), SkipWs(str, i + 1) + 1)
            ELSE ParseElements(str, i + 1, <<>>)
  ELSE IF str[i] = "{"
       THEN IF SkipWs(str, i + 1) <= Len(str) /\ str[SkipWs(str, i + 1)] = "}"
            THEN ParseOk(Obj(<<>>), SkipWs(str, i + 1) + 1)
            ELSE ParseMembers(str, i + 1, <<>>)
  ELSE ParseFail

\* JSON.parse(String(v)): the parsed value, or ParseFail for a SyntaxError
JSONParse(v) ==
  LET str == v.s
      r == ParseValue(str, SkipWs(str, 1))
  IN IF r.ok /\ SkipWs(str, r.next) = Len(str) + 1 THEN r ELSE ParseFail

\* ------------------------------------------------------------ model.ts
END_OF_LINE == <<"\r", "\n">>
\* the one character U+FEFF
ByteOrderMark == <<"U+FEFF">>
DEFAULT_FIELD_SEPARATOR == <<",">>
DEFAULT_SHOW_TITLE == FALSE
DEFAULT_TITLE == <<"C", "S", "V">>
DEFAULT_FILENAME == <<"c", "s", "v", ".", "c", "s", "v">>
DEFAULT_USE_BOM == TRUE
DEFAULT_NO_DOWNLOAD == FALSE

ConfigDefaults ==
  [filename |-> Str(DEFAULT_FILENAME),
   fieldSeparator |-> DEFAULT_FIELD_SEPARATOR,
   showTitle |-> DEFAULT_SHOW_TITLE,
   title |-> DEFAULT_TITLE,
   useByteOrderMark |-> DEFAULT_USE_BOM,
   noDownload |-> DEFAULT_NO_DOWNLOAD]

\* { ...ConfigDefaults, ...config }: a fresh object; config is a record of
\* the fields the caller set (the empty record when config is omitted)
MergeConfig(config) ==
  [f \in (DOMAIN configDefaults) \cup (DOMAIN config) |->
     IF f \in DOMAIN config THEN config[f] ELSE configDefaults[f]]

\* ------------------------------------------------------------ the service
\* ToBoolean(v)
Truthy(v) ==
  IF v.t \in {"undefined", "null"} THEN FALSE
  ELSE IF v.t = "string" THEN v.s # <<>>
  ELSE IF v.t = "number" THEN v.s # <<"0">>
  ELSE IF v.t = "boolean" THEN v.s = Bool(TRUE).s
  ELSE TRUE

NoMatch == [found |-> FALSE, name |-> <<>>, index |-> <<>>]

\* key.match(/(\w+)\[(\d+)\]/): the leftmost match.  \w+ cannot cross a "[",
\* so a match is a run of word characters that ends just before a "[",
\* then digits, then "]"; the leftmost match belongs to the first such "["
\* and starts where its run of word characters starts.
\* the digits after the "[" at p run up to e, where a "]" stands
Closes(seg, p, e) == e > p + 1 /\ e <= Len(seg) /\ seg[e] = "]"

Opens(seg) ==
  {p \in 2..Len(seg) :
     /\ seg[p] = "["
     /\ seg[p - 1] \in WordChars
     /\ Closes(seg, p, DigitRunEnd(seg, p + 1))}

\* where the run of word characters before position p starts
RunStart(seg, p) ==
  CHOOSE i \in 1..(p - 1) :
    /\ \A j \in i..(p - 1) : seg[j] \in WordChars
    /\ (i = 1 \/ seg[i - 1] \notin WordChars)

MatchAt(seg, p) ==
  [found |-> TRUE,
   name |-> SubSeq(seg, RunStart(seg, p), p - 1),
   index |-> SubSeq(seg, p + 1, DigitRunEnd(seg, p + 1) - 1)]

FirstOf(set) == CHOOSE q \in set : \A r \in set : q <= r

MatchIn(seg, opens) ==
  IF opens = {} THEN NoMatch ELSE MatchAt(seg, FirstOf(opens))

RegexMatch(seg) == MatchIn(seg, Opens(seg))

\* one round of the loop of getNestedObjectValue
Step(current, key, match) ==
  IF match.found
  THEN Get(Get(current, match.name), match.index)
  ELSE Get(current, key)

RECURSIVE WalkSegments(_, _)
\* the loop of getNestedObjectValue over the segments of the key
WalkSegments(current, segs) ==
  IF segs = <<>> THEN current
  ELSE WalkSegments(Step(current, Head(segs), RegexMatch(Head(segs))),
                    Tail(segs))

getNestedObjectValue(obj, key) == WalkSegments(obj, Split(key, "."))

\* Set.prototype.add on the insertion-ordered set of keys
SetAdd(set, k) ==
  IF \E i \in 1..Len(set) : set[i] = k THEN set ELSE Append(set, k)

RECURSIVE extract(_, _, _)
RECURSIVE ExtractField(_, _, _, _)
RECURSIVE ExtractFields(_, _, _)
RECURSIVE ExtractItems(_, _, _, _)

\* the forEach over an array field: item by item, with its index
ExtractItems(items, currentKeyPrefix, key, set) ==
  IF items = <<>> THEN set
  ELSE ExtractItems(Tail(items), currentKeyPrefix, key,
         extract(Head(items).v,
                 currentKeyPrefix \o key \o <<"[">> \o Head(items).k \o <<"]", ".">>,
                 set))

\* the body of the for-in loop of extract, for one field
ExtractField(key, val, currentKeyPrefix, set) ==
  IF val.t = "array"
  THEN ExtractItems(val.kids, currentKeyPrefix, key, set)
  ELSE IF TypeofObject(val) /\ val.t # "null"
  THEN extract(val, currentKeyPrefix \o key \o <<".">>, set)
  ELSE SetAdd(set, currentKeyPrefix \o key)

\* the for-in loop of extract, field by field
ExtractFields(fields, currentKeyPrefix, set) ==
  IF fields = <<>> THEN set
  ELSE ExtractFields(Tail(fields), currentKeyPrefix,
         ExtractField(Head(fields).k, Head(fields).v, currentKeyPrefix, set))

\* the inner function extract; set is the closure's Set of keys so far
extract(obj, currentKeyPrefix, set) ==
  ExtractFields(ForIn(obj), currentKeyPrefix, set)

RECURSIVE ExtractEach(_, _, _)
ExtractEach(items, keyPrefix, set) ==
  IF items = <<>> THEN set
  ELSE ExtractEach(Tail(items), keyPrefix, extract(Head(items).v, keyPrefix, set))

\* a variant that takes the columns from the first record alone
extractUniqueKeysOfFirst(arr) ==
  IF arr.kids = <<>> THEN <<>> ELSE extract(arr.kids[1].v, <<>>, <<>>)

\* extractUniqueKeys(arr) for an array arr: Array.from(keys)
extractUniqueKeys(arr) == ExtractEach(arr.kids, <<>>, <<>>)

\* a cell, or the TypeError thrown while resolving it
Cell(str) == [thrown |-> FALSE, str |-> str]
CellThrown == [thrown |-> TRUE, str |-> <<>>]

\* String(value), after JSON.stringify for an object or an array
StringOf(value) ==
  IF TypeofObject(value) /\ value.t # "null"
  THEN JSONStringify(value) ELSE value.s

\* first class, lines 134-135: the replacement is unconditional
Escaped1(strValue) ==
  <<QUOTE>> \o ReplaceAll(strValue, QUOTE, <<QUOTE, QUOTE>>) \o <<QUOTE>>

\* a variant that leaves a string alone that already looks quoted
EscapedUnlessQuoted(strValue) ==
  IF Len(strValue) >= 2 /\ strValue[1] = QUOTE /\ strValue[Len(strValue)] = QUOTE
  THEN strValue
  ELSE <<QUOTE>> \o ReplaceAll(strValue, QUOTE, <<QUOTE, QUOTE>>) \o <<QUOTE>>

\* second class, lines 362-366: the replacement only if a quote is included
Escaped(strValue) ==
  <<QUOTE>>
  \o (IF Includes(strValue, QUOTE)
      THEN ReplaceAll(strValue, QUOTE, <<QUOTE, QUOTE>>) ELSE strValue)
  \o <<QUOTE>>

FormatValue1(value) ==
  IF value.t = "TypeError" THEN CellThrown ELSE Cell(Escaped1(StringOf(value)))

FormatValue(value) ==
  IF value.t = "TypeError" THEN CellThrown ELSE Cell(Escaped(StringOf(value)))

\* formatCellValue of the first class
formatCellValue1(obj, key) == FormatValue1(getNestedObjectValue(obj, key))

\* formatCellValue of the second class
formatCellValue(obj, key) == FormatValue(getNestedObjectValue(obj, key))

\* getNestedValues(data, key) of the first class: one value per record
getNestedValues(arr, key) ==
  [i \in 1..Len(arr.kids) |-> getNestedObjectValue(arr.kids[i].v, key)]

Parsed(v) == [thrown |-> FALSE, v |-> v, log |-> <<>>]

\* parseJson of the first class: logs and returns null
parseJson1(jsonString) ==
  LET parsedData == JSONParse(jsonString)
  IN IF ~parsedData.ok
     THEN [thrown |-> FALSE, v |-> Null, log |-> <<"Invalid JSON:">>]
     ELSE IF TypeofObject(parsedData.v) /\ parsedData.v.t # "null"
     THEN Parsed(parsedData.v)
     ELSE Parsed(Null)

\* parseJson of the second class: throws Error(`Invalid JSON: ...`)
parseJson(jsonString) ==
  LET parsedData == JSONParse(jsonString)
  IN IF parsedData.ok /\ TypeofObject(parsedData.v) /\ parsedData.v.t # "null"
     THEN Parsed(parsedData.v)
     ELSE [thrown |-> TRUE, v |-> Undefined, log |-> <<>>]

\* a variant that keeps the text of the call before
resetCsvSkipped(old) == old

\* this.csv = '' at the start of toCsv
resetCsv(old) == <<>>

addByteOrderMarkAndTitle(text, opts) ==
  LET withBom == IF opts.useByteOrderMark THEN text \o ByteOrderMark ELSE text
  IN IF opts.showTitle
     THEN withBom \o opts.title \o <<"\r", "\n", "\n">>
     ELSE withBom

generateCsvHeader(text, ks, opts) ==
  text \o Join(ks, opts.fieldSeparator) \o END_OF_LINE

\* a variant that takes the columns of a row from the record itself
RowCellsOfOwnKeys(obj, ks) ==
  [j \in 1..Len(extractUniqueKeys(Arr(<<obj>>))) |->
     formatCellValue(obj, extractUniqueKeys(Arr(<<obj>>))[j])]

\* keys.map(key => this.formatCellValue(obj, key))
RowCells(obj, ks) == [j \in 1..Len(ks) |-> formatCellValue(obj, ks[j])]
RowCells1(obj, ks) == [j \in 1..Len(ks) |-> formatCellValue1(obj, ks[j])]

RowThrows(cells) == \E j \in 1..Len(cells) : cells[j].thrown
RowText(cells) == [j \in 1..Len(cells) |-> cells[j].str]

generateCsvRow(text, obj, ks, opts) ==
  text \o Join(RowText(RowCells(obj, ks)), opts.fieldSeparator) \o END_OF_LINE

RECURSIVE AppendRows(_, _, _, _, _)
\* the loop over this.data, for the records before position upto
AppendRows(text, arr, i, upto, ctx) ==
  IF i > upto THEN text
  ELSE AppendRows(generateCsvRow(text, arr.kids[i].v, ctx.ks, ctx.opts),
                  arr, i + 1, upto, ctx)

\* what downloadCsvFile hands to the browser: the blob's text and link.download
downloadCsvFile(text, opts) ==
  LET name == IF opts.filename.t \in {"undefined", "null"}
              THEN Undefined.s
              ELSE ReplaceAll(opts.filename.s, " ", <<"_">>)
  IN [text |-> text, download |-> name \o <<".", "c", "s", "v">>]

\* what one call leaves behind and shows: the fields of the instance, how the
\* call ended (outcome "return" or "throw"), the value returned, the error
\* thrown, the downloads started, the console lines, and the keys and rows
Result(d, o, c, out, ret, err, dl, lg, ks, rs) ==
  [data |-> d, options |-> o, csv |-> c, outcome |-> out, returned |-> ret,
   thrown |-> err, downloads |-> dl, log |-> lg, keys |-> ks, rows |-> rs]

\* the first record whose row throws, or Len + 1
FirstThrow(rowCells) ==
  IF \A i \in 1..Len(rowCells) : ~RowThrows(rowCells[i])
  THEN Len(rowCells) + 1
  ELSE FirstOf({i \in 1..Len(rowCells) : RowThrows(rowCells[i])})

\* a variant in which a filename of the config wins over the argument
OptionsConfigNameWins(filename, config) ==
  IF Truthy(filename) /\ "filename" \notin DOMAIN config
  THEN [MergeConfig(config) EXCEPT !["filename"] = filename]
  ELSE MergeConfig(config)

\* options after the merge and the filename override
Options(filename, config) ==
  IF Truthy(filename)
  THEN [MergeConfig(config) EXCEPT !["filename"] = filename]
  ELSE MergeConfig(config)

\* ---- toCsv of the first class (lines 32-75), stage by stage

\* lines 64-73: the empty check, then return the text or start the download
Finish1(arr, opts, text, ks, made) ==
  IF text = <<>>
  THEN Result(arr, opts, text, "return", Undefined, "",
              <<>>, <<"Invalid data">>, ks, made)
  ELSE IF opts.noDownload
  THEN Result(arr, opts, text, "return", Str(text), "", <<>>, <<>>, ks, made)
  ELSE Result(arr, opts, text, "return", Undefined, "",
              <<downloadCsvFile(text, opts)>>, <<>>, ks, made)

\* lines 54-62: csvData is local, so a row that throws leaves this.csv at
\* the prefix
Rows1(arr, opts, csv1, ks, cells) ==
  IF FirstThrow(cells) <= Len(cells)
  THEN Result(arr, opts, csv1, "throw", Undefined, "TypeError", <<>>, <<>>,
              ks, [i \in 1..(FirstThrow(cells) - 1) |-> RowText(cells[i])])
  ELSE Finish1(arr, opts,
               csv1 \o Join(<<Join(ks, opts.fieldSeparator)>>
                            \o [i \in 1..Len(cells) |->
                                  Join(RowText(cells[i]), opts.fieldSeparator)],
                            END_OF_LINE),
               ks, [i \in 1..Len(cells) |-> RowText(cells[i])])

\* line 53: arr.forEach is not a function unless arr is an array
Keys1(arr, opts, csv1, ks) ==
  Rows1(arr, opts, csv1, ks,
        [i \in 1..Len(arr.kids) |-> RowCells1(arr.kids[i].v, ks)])

\* lines 45-53
Prefix1(arr, opts, csv1) ==
  IF arr.t # "array"
  THEN Result(arr, opts, csv1, "throw", Undefined, "TypeError",
              <<>>, <<>>, <<>>, <<>>)
  ELSE Keys1(arr, opts, csv1, extractUniqueKeys(arr))

\* lines 36-51
Normalized1(self, filename, config, csv0, parsed) ==
  IF ~Truthy(parsed.v)
  THEN Result(parsed.v, self.options, csv0, "return", Undefined, "",
              <<>>, parsed.log, <<>>, <<>>)
  ELSE Prefix1(parsed.v, Options(filename, config),
               addByteOrderMarkAndTitle(csv0, Options(filename, config)))

toCsv1(self, dataToTransform, filename, config) ==
  Normalized1(self, filename, config, resetCsv(self.csv),
              IF ~TypeofObject(dataToTransform)
              THEN parseJson1(dataToTransform) ELSE Parsed(dataToTransform))

\* ---- toCsv of the second class (lines 224-258), stage by stage

\* a variant that starts the download whatever noDownload says
FinishAlwaysDownloads(arr, opts, text, ks, made) ==
  IF text = <<>>
  THEN Result(arr, opts, text, "throw", Undefined, "Invalid data",
              <<>>, <<>>, ks, made)
  ELSE Result(arr, opts, text, "return",
              IF opts.noDownload THEN Str(text) ELSE Undefined, "",
              <<downloadCsvFile(text, opts)>>, <<>>, ks, made)

\* lines 249-257: the empty check, then return the text or start the download
Finish(arr, opts, text, ks, made) ==
  IF text = <<>>
  THEN Result(arr, opts, text, "throw", Undefined, "Invalid data",
              <<>>, <<>>, ks, made)
  ELSE IF opts.noDownload
  THEN Result(arr, opts, text, "return", Str(text), "", <<>>, <<>>, ks, made)
  ELSE Result(arr, opts, text, "return", Undefined, "",
              <<downloadCsvFile(text, opts)>>, <<>>, ks, made)

\* lines 245-247: rows are appended to this.csv one by one, so a row that
\* throws leaves the rows before it in this.csv
Rows(arr, opts, csv3, ks, cells) ==
  IF FirstThrow(cells) <= Len(cells)
  THEN Result(arr, opts, csv3, "throw", Undefined, "TypeError", <<>>, <<>>,
              ks, [i \in 1..(FirstThrow(cells) - 1) |-> RowText(cells[i])])
  ELSE Finish(arr, opts, csv3, ks, [i \in 1..Len(cells) |-> RowText(cells[i])])

\* line 242 and the loop of lines 245-247 up to the first row that throws
Header(arr, opts, csv2, ks, cells) ==
  Rows(arr, opts,
       AppendRows(csv2, arr, 1, FirstThrow(cells) - 1, [ks |-> ks, opts |-> opts]),
       ks, cells)

\* lines 239-245
Keys(arr, opts, csv1, ks) ==
  Header(arr, opts, generateCsvHeader(csv1, ks, opts), ks,
         [i \in 1..Len(arr.kids) |-> RowCells(arr.kids[i].v, ks)])

\* lines 237-239: arr.forEach is not a function unless arr is an array
Prefix(arr, opts, csv1) ==
  IF arr.t # "array"
  THEN Result(arr, opts, csv1, "throw", Undefined, "TypeError",
              <<>>, <<>>, <<>>, <<>>)
  ELSE Keys(arr, opts, csv1, extractUniqueKeys(arr))

\* lines 227-237: a throw of parseJson leaves this.data as it was
Normalized(self, filename, config, csv0, parsed) ==
  IF parsed.thrown
  THEN Result(self.data, self.options, csv0, "throw", Undefined,
              "Invalid JSON", <<>>, <<>>, <<>>, <<>>)
  ELSE IF ~Truthy(parsed.v)
  THEN Result(parsed.v, self.options, csv0, "return", Undefined, "",
              <<>>, <<>>, <<>>, <<>>)
  ELSE Prefix(parsed.v, Options(filename, config),
              addByteOrderMarkAndTitle(csv0, Options(filename, config)))

toCsv(self, dataToTransform, filename, config) ==
  Normalized(self, filename, config, resetCsv(self.csv),
             IF ~TypeofObject(dataToTransform)
             THEN parseJson(dataToTransform) ELSE Parsed(dataToTransform))

\* ------------------------------------------------------------ inputs
ka == <<"a">>
kb == <<"b">>
kc == <<"c">>
kd == <<"d">>
One == Num(<<"1">>)
Two == Num(<<"2">>)

\* {a: 1, b: "x"}
RecFlat == Obj(<<F(ka, One), F(kb, Str(<<"x">>))>>)
\* {b: "y\",z"}
RecQuote == Obj(<<F(kb, Str(<<"y", QUOTE, ",", "z">>))>>)
\* {c: {d: 2}}
RecNested == Obj(<<F(kc, Obj(<<F(kd, Two)>>))>>)

SvcRecords == {RecFlat, RecQuote, RecNested}

\* the arrays of up to MaxRecords different records
SvcCollections ==
  {Arr(c) : c \in UNION {{f \in [1..n -> SvcRecords] :
                            \A i, j \in 1..n : f[i] = f[j] => i = j} :
                         n \in 0..MaxRecords}}

\* the text `not json`, the texts `5` and `null`, the text of [RecFlat]
TextNotJson == Str(<<"n", "o", "t", " ", "j", "s", "o", "n">>)
TextNumber == Str(<<"5">>)
TextRecords == Str(JSONStringify(Arr(<<RecFlat>>)))
TextEmptyArray == Str(<<"[", " ", "]">>)

\* null, an object that is no array, texts, and arrays of records
DataArgs ==
  SvcCollections \cup
  {Null, RecFlat, TextNotJson, TextNumber, TextRecords, TextEmptyArray}

NoName == Str(<<>>)
MyName == Str(<<"m", "y", " ", "r", " ", "1">>)

NoConfig == <<>>

\* the filename and config arguments of a call
TailArgs ==
  <<[filename |-> NoName, config |-> NoConfig],
    [filename |-> MyName, config |-> NoConfig],
    [filename |-> NoName, config |-> [noDownload |-> TRUE]],
    [filename |-> NoName, config |-> [useByteOrderMark |-> FALSE]],
    [filename |-> MyName,
     config |-> [useByteOrderMark |-> FALSE, noDownload |-> TRUE]],
    [filename |-> NoName,
     config |-> [showTitle |-> TRUE, title |-> <<"T">>,
                 fieldSeparator |-> <<";">>, noDownload |-> TRUE]],
    [filename |-> NoName, config |-> [filename |-> Str(<<"f", " ", "g">>)]],
    [filename |-> MyName, config |-> [filename |-> Str(<<"f", " ", "g">>)]]>>

\* ---- arguments of the helper methods
\* the string "q", quotes included
StrQuoted == Str(<<QUOTE, "q", QUOTE>>)

\* the i-th element of a generated array of primitives: 1, "xy", null, true
PrimElem(i) ==
  IF i % 4 = 1 THEN One
  ELSE IF i % 4 = 2 THEN Str(<<"x", "y">>)
  ELSE IF i % 4 = 3 THEN Null
  ELSE Bool(TRUE)

\* the i-th element of a generated array of objects: {b: i} or {a: null}
ObjElem(i) ==
  IF i % 2 = 1 THEN Obj(<<F(kb, Num(ToStr(i)))>>) ELSE Obj(<<F(ka, Null)>>)

PrimArr(n) == Arr([i \in 1..n |-> PrimElem(i)])
ObjArr(n) == Arr([i \in 1..n |-> ObjElem(i)])

FnValues ==
  {One, StrQuoted, Null,
   Obj(<<F(kb, Two)>>),
   Obj(<<F(kb, Obj(<<F(ka, Bool(TRUE))>>))>>)}
  \cup {PrimArr(n) : n \in 0..MaxArr}
  \cup {ObjArr(n) : n \in 1..MaxArr}

\* records whose field names hold a dot, brackets or a hyphen, and a record
\* with an array directly inside an array:
\* {"a.b": 1}, {"a[0]": 1}, {"a-b": 1}, {"a-b": [{b: 2}]}, {a: [[1, {b: 2}]]}
FnNamedRecords ==
  {Obj(<<F(<<"a", ".", "b">>, One)>>),
   Obj(<<F(<<"a", "[", "0", "]">>, One)>>),
   Obj(<<F(<<"a", "-", "b">>, One)>>),
   Obj(<<F(<<"a", "-", "b">>, Arr(<<Obj(<<F(kb, Two)>>)>>))>>),
   Obj(<<F(ka, Arr(<<Arr(<<One, Obj(<<F(kb, Two)>>)>>)>>))>>)}

\* {}, {a: v}, {a: 1, b: 2} and {a: {b: 2}, b: 2}, and the records above
FnRecords ==
  FnNamedRecords \cup
  {Obj(<<>>)}
  \cup {Obj(<<F(ka, v)>>) : v \in FnValues}
  \cup {Obj(<<F(ka, v), F(kb, Two)>>) : v \in {One, Obj(<<F(kb, Two)>>)}}

FnCollections ==
  {Arr(c) : c \in UNION {[1..n -> FnRecords] : n \in 0..MaxFnRecords}}

\* ------------------------------------------------------------ behaviour
NoArgs == [dataToTransform |-> Undefined, filename |-> Undefined,
           config |-> NoConfig]
NotRun == [done |-> FALSE, out |-> <<>>]
Ran(out) == [done |-> TRUE, out |-> out]

Self == [data |-> data, options |-> options, csv |-> csv]

\* the instance as constructed: data and options unset, csv = ''
Fresh == [data |-> Undefined, options |-> Undefined, csv |-> <<>>]

Init ==
  /\ impl \in {"v1", "v2"}
  /\ data = Fresh.data
  /\ options = Fresh.options
  /\ csv = Fresh.csv
  /\ args = NoArgs
  /\ outcome = "none"
  /\ returned = Undefined
  /\ thrown = ""
  /\ downloads = <<>>
  /\ log = <<>>
  /\ keys = <<>>
  /\ rows = <<>>
  /\ earlier = "none"
  /\ fnArr = Arr(<<>>)
  /\ fnKeys = NotRun
  /\ fnValues = NotRun
  /\ fnCells = NotRun
  /\ configDefaults = ConfigDefaults

\* the exported object after a call that left this.options at opts: the
\* spread copies its fields into a new object, and the filename is written
\* to that copy
DefaultsAfter(opts) == configDefaults

Leaves(r, a) ==
  /\ configDefaults' = DefaultsAfter(r.options)
  /\ data' = r.data
  /\ options' = r.options
  /\ csv' = r.csv
  /\ args' = a
  /\ outcome' = r.outcome
  /\ returned' = r.returned
  /\ thrown' = r.thrown
  /\ downloads' = r.downloads
  /\ log' = r.log
  /\ keys' = r.keys
  /\ rows' = r.rows
  /\ earlier' = IF outcome = "none" THEN "none" ELSE thrown
  /\ UNCHANGED <<impl, fnArr, fnKeys, fnValues, fnCells>>

\* a call of toCsv on an instance of the first class
ToCsv1 ==
  /\ impl = "v1"
  /\ \E d \in DataArgs, t \in 1..Len(TailArgs) :
       Leaves(toCsv1(Self, d, TailArgs[t].filename, TailArgs[t].config),
              [dataToTransform |-> d, filename |-> TailArgs[t].filename,
               config |-> TailArgs[t].config])

\* a call of toCsv on an instance of the second class
ToCsv ==
  /\ impl = "v2"
  /\ \E d \in DataArgs, t \in 1..Len(TailArgs) :
       Leaves(toCsv(Self, d, TailArgs[t].filename, TailArgs[t].config),
              [dataToTransform |-> d, filename |-> TailArgs[t].filename,
               config |-> TailArgs[t].config])

Next == ToCsv1 \/ ToCsv

Spec == Init /\ [][Next]_vars

\* ---- the helper methods, called on their own
Service == <<impl, data, options, csv, args, outcome, returned, thrown,
             downloads, log, keys, rows, earlier, configDefaults>>

InitFn ==
  /\ impl \in {"v1", "v2"}
  /\ data = Fresh.data
  /\ options = Fresh.options
  /\ csv = Fresh.csv
  /\ args = NoArgs
  /\ outcome = "none"
  /\ returned = Undefined
  /\ thrown = ""
  /\ downloads = <<>>
  /\ log = <<>>
  /\ keys = <<>>
  /\ rows = <<>>
  /\ earlier = "none"
  /\ fnArr \in FnCollections
  /\ fnKeys = NotRun
  /\ fnValues = NotRun
  /\ fnCells = NotRun
  /\ configDefaults = ConfigDefaults

ExtractUniqueKeys ==
  /\ ~fnKeys.done
  /\ fnKeys' = Ran(extractUniqueKeys(fnArr))
  /\ UNCHANGED <<Service, fnArr, fnValues, fnCells>>

GetNestedValues ==
  /\ fnKeys.done
  /\ ~fnValues.done
  /\ fnValues' = Ran([j \in 1..Len(fnKeys.out) |->
                        getNestedValues(fnArr, fnKeys.out[j])])
  /\ UNCHANGED <<Service, fnArr, fnKeys, fnCells>>

FormatCellValue ==
  /\ fnKeys.done
  /\ ~fnCells.done
  /\ fnCells' = Ran([i \in 1..Len(fnArr.kids) |->
                       IF impl = "v1"
                       THEN RowCells1(fnArr.kids[i].v, fnKeys.out)
                       ELSE RowCells(fnArr.kids[i].v, fnKeys.out)])
  /\ UNCHANGED <<Service, fnArr, fnKeys, fnValues>>

NextFn == ExtractUniqueKeys \/ GetNestedValues \/ FormatCellValue

SpecFn == InitFn /\ [][NextFn]_vars

\* ------------------------------------------------------------ claims
FnRecord(i) == fnArr.kids[i].v
FnKeySet == {fnKeys.out[j] : j \in 1..Len(fnKeys.out)}

IsPrimitive(v) == v.t \in {"number", "string", "boolean", "null"}

RECURSIVE LeafFieldPaths(_, _)
\* the flattened key paths of the leaf fields of a record: a field that
\* holds a primitive or null is a leaf; a nested object extends the prefix
\* with `field.`, an object at index i of an array with `field[i].`
LeafFieldPaths(rec, prefix) ==
  UNION {
    LET k == rec.kids[n].k
        val == rec.kids[n].v
    IN IF val.t = "object" THEN LeafFieldPaths(val, prefix \o k \o <<".">>)
       ELSE IF val.t = "array"
       THEN UNION {
              IF val.kids[i].v.t = "object"
              THEN LeafFieldPaths(val.kids[i].v,
                     prefix \o k \o <<"[">> \o ToStr(i - 1) \o <<"]", ".">>)
              ELSE {} : i \in 1..Len(val.kids)}
       ELSE {prefix \o k}
    : n \in 1..Len(rec.kids)}

\* C1: the key paths extractUniqueKeys returns for a collection contain the
\* flattened key path of every leaf field of every record of the collection
ColumnCompleteness ==
  fnKeys.done =>
    \A i \in 1..Len(fnArr.kids) : LeafFieldPaths(FnRecord(i), <<>>) \subseteq FnKeySet

\* two records, the second with a leaf the first lacks, a leaf below a
\* nested object and a leaf below an array element
ColumnCompletenessWitness ==
  /\ fnKeys.done
  /\ Len(fnArr.kids) = 2
  /\ ~(LeafFieldPaths(FnRecord(2), <<>>) \subseteq LeafFieldPaths(FnRecord(1), <<>>))
  /\ \E p \in LeafFieldPaths(FnRecord(1), <<>>) : Includes(p, ".") /\ ~Includes(p, "[")
  /\ \E p \in LeafFieldPaths(FnRecord(2), <<>>) : Includes(p, "[")

CountQuotes(str) == Cardinality({i \in 1..Len(str) : str[i] = QUOTE})

\* out is str between one pair of quotes, each quote of str written twice
IsQuotedForm(str, out) ==
  /\ Len(out) = Len(str) + CountQuotes(str) + 2
  /\ out[1] = QUOTE
  /\ out[Len(out)] = QUOTE
  /\ \A i \in 1..Len(str) :
       LET pos == 1 + i + CountQuotes(SubSeq(str, 1, i - 1))
       IN out[pos] = str[i] /\ (str[i] = QUOTE => out[pos + 1] = QUOTE)

\* C7: for every value a key resolves to, formatCellValue returns the
\* value's string form with each double quote doubled, between exactly one
\* outer pair of double quotes
CellQuoting ==
  fnCells.done =>
    \A i \in 1..Len(fnArr.kids), j \in 1..Len(fnKeys.out) :
      LET value == getNestedObjectValue(FnRecord(i), fnKeys.out[j])
      IN value.t # "TypeError" =>
           /\ ~fnCells.out[i][j].thrown
           /\ IsQuotedForm(StringOf(value), fnCells.out[i][j].str)

\* cells formatted from a string that starts and ends with a quote, from an
\* object (its JSON text holds quotes) and from a value without any quote
CellQuotingWitness ==
  /\ fnCells.done
  /\ \E i \in 1..Len(fnArr.kids), j \in 1..Len(fnKeys.out) :
       getNestedObjectValue(FnRecord(i), fnKeys.out[j]) = StrQuoted
  /\ \E i \in 1..Len(fnArr.kids), j \in 1..Len(fnKeys.out) :
       getNestedObjectValue(FnRecord(i), fnKeys.out[j]).t = "object"
  /\ \E i \in 1..Len(fnArr.kids), j \in 1..Len(fnKeys.out) :
       getNestedObjectValue(FnRecord(i), fnKeys.out[j]).t = "number"

\* the fields of the records of fnArr that hold an array of primitives
PrimitiveArrayFields ==
  {f \in UNION {{FnRecord(i).kids[n] : n \in 1..Len(FnRecord(i).kids)} :
                i \in 1..Len(fnArr.kids)} :
     /\ f.v.t = "array"
     /\ Len(f.v.kids) >= 1
     /\ \A n \in 1..Len(f.v.kids) : IsPrimitive(f.v.kids[n].v)}

IndexPath(field, i) == field \o <<"[">> \o ToStr(i) \o <<"]">>

\* C8: a field that holds an array of n primitives yields the key paths
\* field[0] .. field[n-1] and, in a collection of that one record, no other
\* key path under the field; a record with a shorter array of primitives
\* shows an empty quoted cell under the key paths of the missing indices
PrimitiveArrayColumns ==
  /\ fnKeys.done =>
       \A f \in PrimitiveArrayFields :
         /\ \A i \in 0..(Len(f.v.kids) - 1) : IndexPath(f.k, i) \in FnKeySet
         /\ Len(fnArr.kids) = 1 =>
              \A key \in FnKeySet :
                StartsWith(key, 1, f.k \o <<"[">>) =>
                  \E i \in 0..(Len(f.v.kids) - 1) : key = IndexPath(f.k, i)
  /\ fnCells.done =>
       \A f \in PrimitiveArrayFields :
         \A i \in 1..Len(fnArr.kids), j \in 1..Len(fnKeys.out) :
           (/\ StartsWith(fnKeys.out[j], 1, f.k \o <<"[">>)
            /\ Get(FnRecord(i), f.k).t = "array"
            /\ \A n \in 1..Len(Get(FnRecord(i), f.k).kids) :
                 IsPrimitive(Get(FnRecord(i), f.k).kids[n].v)
            /\ getNestedObjectValue(FnRecord(i), fnKeys.out[j]).t
                 \in {"undefined", "TypeError"})
           => fnCells.out[i][j] = Cell(<<QUOTE, QUOTE>>)

\* ---- the last call of toCsv, as its caller and the browser see it
Called == outcome # "none"

ConfigOr(field, default) ==
  IF field \in DOMAIN args.config THEN args.config[field] ELSE default

NoDownloadArg == ConfigOr("noDownload", FALSE)

\* the call produced a document: it returned text or started a download
HasDocument ==
  outcome = "return" /\ (returned.t = "string" \/ downloads # <<>>)

Document == IF returned.t = "string" THEN returned.s ELSE downloads[1].text

\* the document after the byte order mark and the title block
Body ==
  SubSeq(Document,
         1 + (IF ConfigOr("useByteOrderMark", TRUE) THEN 1 ELSE 0)
           + (IF ConfigOr("showTitle", FALSE)
              THEN Len(ConfigOr("title", <<"C", "S", "V">>)) + 3 ELSE 0),
         Len(Document))

RECURSIVE SplitLines(_)
\* the pieces of str between its \r\n pairs
SplitLines(str) ==
  IF \A i \in 1..(Len(str) - 1) : ~(str[i] = "\r" /\ str[i + 1] = "\n")
  THEN <<str>>
  ELSE LET p == CHOOSE i \in 1..(Len(str) - 1) :
                  /\ str[i] = "\r" /\ str[i + 1] = "\n"
                  /\ \A j \in 1..(i - 1) : ~(str[j] = "\r" /\ str[j + 1] = "\n")
       IN <<SubSeq(str, 1, p - 1)>> \o SplitLines(SubSeq(str, p + 2, Len(str)))

\* the lines of the body: a last line may or may not end in \r\n
BodyLines ==
  LET pieces == SplitLines(Body)
  IN IF Len(pieces) > 1 /\ pieces[Len(pieces)] = <<>>
     THEN SubSeq(pieces, 1, Len(pieces) - 1) ELSE pieces

RECURSIVE Cells(_, _, _, _)
\* the cells of a line: a separator inside a quoted cell separates nothing
Cells(line, sep, inQuotes, cur) ==
  IF line = <<>> THEN <<cur>>
  ELSE IF Head(line) = QUOTE
       THEN Cells(Tail(line), sep, ~inQuotes, Append(cur, QUOTE))
  ELSE IF Head(line) = sep /\ ~inQuotes
       THEN <<cur>> \o Cells(Tail(line), sep, FALSE, <<>>)
  ELSE Cells(Tail(line), sep, inQuotes, Append(cur, Head(line)))

LineCells(line) ==
  IF line = <<>> THEN <<>>
  ELSE Cells(line, ConfigOr("fieldSeparator", <<",">>)[1], FALSE, <<>>)

\* C2: in a document toCsv produces, the header line is the key paths of
\* the call joined by the separator, and every data line holds as many
\* cells as there are key paths, in the same column order (the cell of
\* record i under key path j in column j), one data line per record of the
\* input, in input order
RowColumnAlignment ==
  HasDocument =>
    /\ Len(BodyLines) = Len(data.kids) + 1
    /\ BodyLines[1] = Join(keys, ConfigOr("fieldSeparator", <<",">>))
    /\ LineCells(BodyLines[1]) = keys
    /\ Len(rows) = Len(data.kids)
    /\ \A i \in 1..Len(data.kids) :
         /\ Len(rows[i]) = Len(keys)
         /\ LineCells(BodyLines[i + 1]) = rows[i]
         /\ Len(LineCells(BodyLines[i + 1])) = Len(keys)
         /\ \A j \in 1..Len(keys) :
              IsQuotedForm(
                StringOf(getNestedObjectValue(data.kids[i].v, keys[j])),
                LineCells(BodyLines[i + 1])[j])

\* a document of two records with different fields and two columns or more
RowColumnAlignmentWitness ==
  /\ HasDocument
  /\ Len(data.kids) = 2
  /\ Len(keys) >= 2
  /\ LeafFieldPaths(data.kids[1].v, <<>>) # LeafFieldPaths(data.kids[2].v, <<>>)

\* C3: when a key path discovered from one record does not exist in another
\* record of the collection, toCsv raises no error and the cell of that
\* record and column is an empty quoted cell
MissingPathsGiveEmptyCells ==
  (Called /\ thrown # "Invalid JSON" /\ data.t = "array") =>
    /\ thrown # "TypeError"
    /\ \A i \in 1..Len(rows), j \in 1..Len(keys) :
         getNestedObjectValue(data.kids[i].v, keys[j]).t = "undefined"
           => rows[i][j] = <<QUOTE, QUOTE>>

\* the data argument is a text that is no JSON, or the JSON of no object
InvalidText ==
  /\ args.dataToTransform.t = "string"
  /\ \/ ~JSONParse(args.dataToTransform).ok
     \/ JSONParse(args.dataToTransform).v.t \notin {"object", "array"}

\* C4: a call whose data is such a text reports an error to the caller (an
\* error thrown or, read widely, no text where text was asked for), returns
\* no CSV text and starts no download
InvalidInputFails ==
  (Called /\ InvalidText) =>
    /\ outcome = "throw" \/ NoDownloadArg
    /\ returned.t # "string"
    /\ downloads = <<>>

\* the call ran to its end on usable data and a non-empty document
Completed == outcome = "return" /\ Truthy(data) /\ csv # <<>>

DocumentLines(text) ==
  LET pieces == SplitLines(text)
  IN IF Len(pieces) > 1 /\ pieces[Len(pieces)] = <<>>
     THEN Len(pieces) - 1 ELSE Len(pieces)

\* C5: a call that completes returns the assembled text and starts no
\* download if noDownload is true, and otherwise starts exactly one
\* download, of the assembled text with every row in it, and returns
\* nothing; a call that aborts or fails starts no download
ReturnOrDeliver ==
  /\ (Called /\ ~Completed) => downloads = <<>>
  /\ Completed =>
       /\ Len(rows) = Len(data.kids)
       /\ IF NoDownloadArg
          THEN returned = Str(csv) /\ downloads = <<>>
          ELSE /\ returned = Undefined
               /\ Len(downloads) = 1
               /\ downloads[1].text = csv
               /\ DocumentLines(downloads[1].text) >= Len(data.kids) + 1

\* a completed call on two records that started a download
ReturnOrDeliverWitness ==
  /\ Completed
  /\ ~NoDownloadArg
  /\ Len(data.kids) = 2
  /\ Len(downloads) = 1

\* C6: after the byte order mark and the title block, the header line and
\* each of the n record lines of a document end in \r\n, the last one too:
\* n + 1 line terminators, and the body ends with one
LineTermination ==
  HasDocument =>
    /\ Len(SplitLines(Body)) = Len(data.kids) + 2
    /\ SplitLines(Body)[Len(SplitLines(Body))] = <<>>

\* the data argument is an empty collection, as an array or as its JSON text
EmptyCollectionArg ==
  args.dataToTransform \in {Arr(<<>>), TextEmptyArray}

\* C9: a call that passes normalization and assembles the empty string, as
\* a call on an empty collection with no byte order mark and no title does,
\* reports a failure the caller can tell from a successful return (an error
\* thrown or, read widely, no text where text was asked for) and starts no
\* download; no download is ever started with empty text
EmptyDocumentFails ==
  /\ (Called /\ thrown \notin {"Invalid JSON", "TypeError"} /\ Truthy(data)
        /\ \/ csv = <<>>
           \/ /\ EmptyCollectionArg
              /\ ~ConfigOr("useByteOrderMark", TRUE)
              /\ ~ConfigOr("showTitle", FALSE)) =>
       /\ outcome = "throw" \/ NoDownloadArg
       /\ returned.t # "string"
       /\ downloads = <<>>
  /\ \A d \in 1..Len(downloads) : downloads[d].text # <<>>

\* what the same arguments give on an instance just constructed
OnFresh ==
  IF impl = "v1"
  THEN toCsv1(Fresh, args.dataToTransform, args.filename, args.config)
  ELSE toCsv(Fresh, args.dataToTransform, args.filename, args.config)

\* C10: whatever the calls before it were, a call returns or throws, and
\* hands to the download the text and the file name, exactly as the same
\* arguments do on a fresh instance
NoCarriedState ==
  Called =>
    /\ outcome = OnFresh.outcome
    /\ thrown = OnFresh.thrown
    /\ returned = OnFresh.returned
    /\ downloads = OnFresh.downloads

\* a download started by a call that followed one that threw a TypeError
NoCarriedStateWitness ==
  /\ earlier = "TypeError"
  /\ HasDocument
  /\ downloads # <<>>
  /\ Len(data.kids) >= 1

\* the filename the claim names F: the filename argument when one is
\* supplied (a non-empty text), else the filename of the config, else the
\* default
NamedF ==
  IF Truthy(args.filename) THEN args.filename.s
  ELSE ConfigOr("filename", ConfigDefaults.filename).s

\* name is F with each space replaced by an underscore, then .csv
IsDeliveredName(base, name) ==
  /\ Len(name) = Len(base) + 4
  /\ SubSeq(name, Len(base) + 1, Len(base) + 4) = <<".", "c", "s", "v">>
  /\ \A i \in 1..Len(base) :
       name[i] = (IF base[i] = " " THEN "_" ELSE base[i])

\* C11: every download toCsv starts is named F with its spaces replaced by
\* underscores and .csv appended, F being the filename argument when one is
\* supplied, else the filename of the config, else csv.csv; and the exported
\* ConfigDefaults object is never modified
DeliveredFilename ==
  /\ configDefaults = ConfigDefaults
  /\ \A d \in 1..Len(downloads) : IsDeliveredName(NamedF, downloads[d].download)

\* a download under a filename argument with spaces that overrode the
\* filename of the config
DeliveredFilenameWitness ==
  /\ outcome = "return"
  /\ downloads # <<>>
  /\ Truthy(args.filename)
  /\ " " \in {args.filename.s[i] : i \in 1..Len(args.filename.s)}
  /\ "filename" \in DOMAIN args.config
  /\ args.config["filename"] # args.filename

RECURSIVE DiscoveredLeaves(_, _)
\* the leaves of a record with the key paths they are discovered under: a
\* primitive or null property is a leaf under prefix + name, an object
\* property extends the prefix with `name.`, and element i of an array
\* property with `name[i].`
DiscoveredLeaves(obj, prefix) ==
  UNION {
    LET key == ForIn(obj)[n].k
        val == ForIn(obj)[n].v
    IN IF val.t = "array"
       THEN UNION {DiscoveredLeaves(val.kids[i].v,
                     prefix \o key \o <<"[">> \o ToStr(i - 1) \o <<"]", ".">>)
                   : i \in 1..Len(val.kids)}
       ELSE IF val.t = "object"
       THEN DiscoveredLeaves(val, prefix \o key \o <<".">>)
       ELSE {[k |-> prefix \o key, v |-> val]}
    : n \in 1..Len(ForIn(obj))}

\* C12: for a record r on its own and every key path k that extractUniqueKeys
\* produces from it, getNestedObjectValue(r, k) throws nothing and returns
\* the primitive or null leaf that k was discovered from
DiscoverResolveRoundTrip ==
  (fnValues.done /\ Len(fnArr.kids) = 1) =>
    \A j \in 1..Len(fnKeys.out) :
      /\ fnValues.out[j][1].t # "TypeError"
      /\ \A p \in DiscoveredLeaves(FnRecord(1), <<>>) :
           p.k = fnKeys.out[j] => fnValues.out[j][1] = p.v

====
